---------------------------- MODULE Spec2Model ----------------------------
(***************************************************************************)
(* pushIn.js: a scroll-driven dolly-zoom effect.                           *)
(*                                                                         *)
(* The scene controller is the PushIn class of src/src/pushin.js (start,   *)
(* setBreakpoints, getLayers, getBreakpointIndex, bindEvents, dolly,       *)
(* toggleLayers, resetLayerParams).  A layer is the PushInLayer class of   *)
(* src/unnamed/part_000, which is the same per-layer code as in pushin.js  *)
(* with the transitions flag and the two transition lengths added; where   *)
(* it reads its scene (scene.layers, scene.speedDelta, scene.layerDepth,   *)
(* scene.getBreakpointIndex, pushin.scrollY) it reads the PushIn object.   *)
(***************************************************************************)
EXTENDS Integers, Sequences, FiniteSets, TLC

(***************************************************************************)
(* JavaScript values.  A number is an exact rational n/d (d > 0, reduced), *)
(* NaN, or the value undefined (which ToNumber turns into NaN).            *)
(***************************************************************************)
RECURSIVE GCD(_, _)
GCD(a, b) == IF b = 0 THEN a ELSE GCD(b, a % b)

Abs(x) == IF x < 0 THEN -x ELSE x

NaN == [t |-> "nan", n |-> 0, d |-> 1]

Undefined == [t |-> "undef", n |-> 0, d |-> 1]

Rat(a, b) ==
    LET s == IF b < 0 THEN -1 ELSE 1
        g == GCD(Abs(a), Abs(b))
    IN  [t |-> "num", n |-> (s * a) \div g, d |-> (s * b) \div g]

Num(x) == [t |-> "num", n |-> x, d |-> 1]

IsNum(v) == v.t = "num"

IsNaN(v) == v.t = "nan"

ToNumber(v) == IF v.t = "undef" THEN NaN ELSE v

Add(a, b) ==
    IF IsNum(a) /\ IsNum(b) THEN Rat(a.n * b.d + b.n * a.d, a.d * b.d) ELSE NaN

Sub(a, b) ==
    IF IsNum(a) /\ IsNum(b) THEN Rat(a.n * b.d - b.n * a.d, a.d * b.d) ELSE NaN

Mul(a, b) ==
    IF IsNum(a) /\ IsNum(b) THEN Rat(a.n * b.n, a.d * b.d) ELSE NaN

\* a / b.  0/0 is NaN.  x/0 with x # 0 is +-Infinity in JavaScript; every
\* division of the program with a divisor that can be 0 has numerator 0
\* (part_000:282-303), so that value is never produced and is left as NaN here.
Div(a, b) ==
    IF IsNum(a) /\ IsNum(b) /\ b.n # 0 THEN Rat(a.n * b.d, a.d * b.n) ELSE NaN

\* The comparison operators: false as soon as one side is NaN or undefined.
Lt(a, b) == IsNum(a) /\ IsNum(b) /\ a.n * b.d < b.n * a.d

Le(a, b) == IsNum(a) /\ IsNum(b) /\ a.n * b.d <= b.n * a.d

Gt(a, b) == Lt(b, a)

Ge(a, b) == Le(b, a)

\* Math.max / Math.min: NaN as soon as one argument is NaN or undefined.
MathMax(a, b) ==
    IF IsNum(a) /\ IsNum(b) THEN (IF Lt(a, b) THEN b ELSE a) ELSE NaN

MathMin(a, b) ==
    IF IsNum(a) /\ IsNum(b) THEN (IF Lt(b, a) THEN b ELSE a) ELSE NaN

\* Truthiness of a number or undefined: 0, NaN and undefined are falsy.
Truthy(v) == IsNum(v) /\ v.n # 0

\* a || b
OrElse(a, b) == IF Truthy(a) THEN a ELSE b

\* array[i] with a 0-based index: undefined outside the array.
At(arr, i) == IF i >= 0 /\ i < Len(arr) THEN arr[i + 1] ELSE Undefined

(***************************************************************************)
(* Strings are sequences of one-character strings.                         *)
(***************************************************************************)
DigitChars == {"0", "1", "2", "3", "4", "5", "6", "7", "8", "9"}

DigitVal(c) ==
    CASE c = "0" -> 0 [] c = "1" -> 1 [] c = "2" -> 2 [] c = "3" -> 3
      [] c = "4" -> 4 [] c = "5" -> 5 [] c = "6" -> 6 [] c = "7" -> 7
      [] c = "8" -> 8 [] c = "9" -> 9

WhiteSpace == {" "}

RECURSIVE SkipSpace(_)
SkipSpace(s) ==
    IF s # <<>> /\ Head(s) \in WhiteSpace THEN SkipSpace(Tail(s)) ELSE s

RECURSIVE TrimEnd(_)
TrimEnd(s) ==
    IF s # <<>> /\ s[Len(s)] \in WhiteSpace
    THEN TrimEnd(SubSeq(s, 1, Len(s) - 1))
    ELSE s

\* String.prototype.trim
trim(s) == TrimEnd(SkipSpace(s))

\* The value of the longest prefix of digits of s, continuing from acc, and
\* whether a digit was seen.
RECURSIVE ReadDigits(_, _, _)
ReadDigits(s, acc, seen) ==
    IF s # <<>> /\ Head(s) \in DigitChars
    THEN ReadDigits(Tail(s), 10 * acc + DigitVal(Head(s)), TRUE)
    ELSE [value |-> acc, seen |-> seen]

\* parseInt(s, 10): leading white space is skipped, then an optional sign,
\* then the longest run of decimal digits; NaN when there is none.
parseInt(s) ==
    LET body == SkipSpace(s)
        neg == body # <<>> /\ Head(body) = "-"
        signed == body # <<>> /\ Head(body) \in {"-", "+"}
        r == ReadDigits(IF signed THEN Tail(body) ELSE body, 0, FALSE)
    IN  IF r.seen THEN Num(IF neg THEN -r.value ELSE r.value) ELSE NaN

\* String.prototype.split(','): the pieces between the commas.
RECURSIVE SplitFrom(_, _, _)
SplitFrom(s, cur, out) ==
    IF s = <<>> THEN Append(out, cur)
    ELSE IF Head(s) = "," THEN SplitFrom(Tail(s), <<>>, Append(out, cur))
    ELSE SplitFrom(Tail(s), Append(cur, Head(s)), out)

split(s) == SplitFrom(s, <<>>, <<>>)

\* s.split(',').map(v => parseInt(v.trim(), 10))
ParseList(s) == [i \in 1..Len(split(s)) |-> parseInt(trim(split(s)[i]))]


(***************************************************************************)
(* Program constants.                                                      *)
(***************************************************************************)
speedDelta == 100

transitionLength == 200

layerDepth == 1000

defaultSpeed == 8

\* The delay of the resize listener's setTimeout.
ResizeDelay == 300

\* this.breakpoints before the scene's own list is read.
DefaultBreakpoints == <<Num(768), Num(1440), Num(1920)>>

(***************************************************************************)
(* The document.  An attribute is absent, or present with a string value.  *)
(* A layer element has its data attributes, the options record the caller  *)
(* passed for it (null when none) and the first entry of its computed      *)
(* transform matrix ("none" when it has no transform).                     *)
(***************************************************************************)
NoAttr == [has |-> FALSE, val |-> <<>>]

Attr(s) == [has |-> TRUE, val |-> s]

\* dataset[name] as a condition: the attribute is present and not "".
AttrTruthy(a) == a.has /\ a.val # <<>>

NoList == [has |-> FALSE, val |-> <<>>]

NoOptions ==
    [present |-> FALSE, inpoints |-> NoList, outpoints |-> NoList,
     speed |-> Undefined, transitions |-> "undef",
     transitionStart |-> Undefined, transitionEnd |-> Undefined]

NoTransform == [none |-> TRUE, a |-> Num(1)]

PlainLayer ==
    [from |-> NoAttr, to |-> NoAttr, speed |-> NoAttr, transitions |-> NoAttr,
     transitionStart |-> NoAttr, transitionEnd |-> NoAttr,
     options |-> NoOptions, transform |-> NoTransform]

(***************************************************************************)
(* PushIn.getBreakpointIndex.  Array.prototype.reverse reverses the array  *)
(* in place and returns it, so this.breakpoints is left reversed by every  *)
(* call.  ctx carries this.breakpoints and the indexes returned so far in  *)
(* the running handler.                                                    *)
(***************************************************************************)
Reverse(s) == [i \in 1..Len(s) |-> s[Len(s) + 1 - i]]

\* Array.prototype.findIndex(bp => bp <= w): 0-based, -1 when none matches.
RECURSIVE FindIndexFrom(_, _, _)
FindIndexFrom(arr, w, i) ==
    IF i > Len(arr) THEN -1
    ELSE IF Le(arr[i], w) THEN i - 1
    ELSE FindIndexFrom(arr, w, i + 1)

findIndex(arr, w) == FindIndexFrom(arr, w, 1)

getBreakpointIndex(ctx, w) ==
    LET reversed == Reverse(ctx.bps)
        searchIndex == findIndex(reversed, w)
        ret == IF searchIndex = -1 THEN 0 ELSE Len(reversed) - 1 - searchIndex
    IN  [ret |-> ret, ctx |-> [bps |-> reversed, log |-> Append(ctx.log, ret)]]

\* PushIn.setBreakpoints: the default list, or the scene's attribute parsed,
\* with 0 put in front.
setBreakpoints(sceneAttr) ==
    <<Num(0)>> \o (IF AttrTruthy(sceneAttr) THEN ParseList(sceneAttr.val)
                   ELSE DefaultBreakpoints)

(***************************************************************************)
(* PushInLayer: the per-breakpoint resolvers.                              *)
(***************************************************************************)
\* getInpoint without the fallback to the first entry.
getInpointNoFallback(inpoints, ctx, w) ==
    LET r == getBreakpointIndex(ctx, w)
    IN  [ret |-> At(inpoints, r.ret), ctx |-> r.ctx]

getInpoint(inpoints, ctx, w) ==
    LET r == getBreakpointIndex(ctx, w)
    IN  [ret |-> OrElse(At(inpoints, r.ret), At(inpoints, 0)), ctx |-> r.ctx]

getOutpoint(outpoints, ctx, w) ==
    LET r == getBreakpointIndex(ctx, w)
    IN  [ret |-> OrElse(At(outpoints, r.ret), At(outpoints, 0)), ctx |-> r.ctx]

(***************************************************************************)
(* PushInLayer: reading a layer's configuration.                           *)
(***************************************************************************)
getTransitions(el) ==
    LET fromOptions ==
            IF el.options.present /\ el.options.transitions # "undef"
            THEN el.options.transitions = "true"
            ELSE TRUE
    IN  IF el.transitions.has /\ el.transitions.val # <<>>
        THEN el.transitions.val # <<"f", "a", "l", "s", "e">>
             /\ el.transitions.val # <<"0">>
        ELSE fromOptions

getTransitionStart(el) ==
    IF el.transitionStart.has THEN parseInt(el.transitionStart.val)
    ELSE IF el.options.present /\ el.options.transitionStart.t # "undef"
    THEN el.options.transitionStart
    ELSE Num(transitionLength)

getTransitionEnd(el) ==
    IF el.transitionEnd.has THEN parseInt(el.transitionEnd.val)
    ELSE IF el.options.present /\ el.options.transitionEnd.t # "undef"
    THEN el.options.transitionEnd
    ELSE Num(transitionLength)

\* The scene's own inpoints, used for the first layer: the scene's
\* data-pushin-from when it has one, else the top of the scene.
sceneInpoints(sceneFrom, top) ==
    IF sceneFrom.has THEN ParseList(sceneFrom.val) ELSE <<top>>

\* getInpoints that chains a layer to the previous outpoint with no gap.
getInpointsNoGap(el, index, sceneFrom, top, layers) ==
    IF AttrTruthy(el.from) THEN ParseList(el.from.val)
    ELSE IF el.options.present /\ el.options.inpoints.has
    THEN el.options.inpoints.val
    ELSE IF index = 0 THEN sceneInpoints(sceneFrom, top)
    ELSE IF index > 0 THEN <<layers[index].params.outpoint>>
    ELSE <<top>>

\* layers: this.layers as built so far.
getInpoints(el, index, sceneFrom, top, layers) ==
    IF AttrTruthy(el.from) THEN ParseList(el.from.val)
    ELSE IF el.options.present /\ el.options.inpoints.has
    THEN el.options.inpoints.val
    ELSE IF index = 0 THEN sceneInpoints(sceneFrom, top)
    ELSE IF index > 0
    THEN <<Sub(layers[index].params.outpoint, Num(speedDelta))>>
    ELSE <<top>>

getOutpoints(el, inpoint) ==
    IF AttrTruthy(el.to) THEN ParseList(el.to.val)
    ELSE IF el.options.present /\ el.options.outpoints.has
    THEN el.options.outpoints.val
    ELSE <<Add(ToNumber(inpoint), Num(layerDepth))>>

\* getSpeed without its last "|| 8".
getSpeedKeepsZero(el) ==
    LET speedInt == IF el.speed.has THEN parseInt(el.speed.val)
                    ELSE Num(defaultSpeed)
    IN  IF IsNaN(speedInt) THEN Num(defaultSpeed) ELSE speedInt

\* PushIn.getSpeed of pushin.js: the attribute when the element has one, else
\* the default; parsed; the default again when that is NaN or 0.
getSpeed(el) ==
    LET speedInt == IF el.speed.has THEN parseInt(el.speed.val)
                    ELSE Num(defaultSpeed)
        checked == IF IsNaN(speedInt) THEN Num(defaultSpeed) ELSE speedInt
    IN  OrElse(checked, Num(defaultSpeed))

\* PushInLayer.getSpeed: the attribute when it is not "", else the options.
PushInLayer_getSpeed(el) ==
    LET parsed == parseInt(el.speed.val)
        speed ==
            IF AttrTruthy(el.speed)
            THEN (IF IsNaN(parsed) THEN Num(defaultSpeed) ELSE parsed)
            ELSE IF el.options.present /\ Truthy(el.options.speed)
            THEN el.options.speed
            ELSE Undefined
    IN  OrElse(speed, Num(defaultSpeed))

\* The scale of the element's computed transform.  The pattern accepts only
\* digits, commas, dots and white space after the bracket, so a matrix whose
\* first entry is negative does not match and the scale stays 1.
getElementScaleX(el) ==
    IF el.transform.none \/ Lt(el.transform.a, Num(0)) THEN Num(1)
    ELSE el.transform.a

(***************************************************************************)
(* PushInLayer.setLayerParams: getDepth resolves the outpoint and then the *)
(* inpoint, then the inpoint and the outpoint are resolved again.          *)
(***************************************************************************)
setLayerParams(layer, el, ctx, w) ==
    LET d1 == getOutpoint(layer.ref.outpoints, ctx, w)
        d2 == getInpoint(layer.ref.inpoints, d1.ctx, w)
        i == getInpoint(layer.ref.inpoints, d2.ctx, w)
        o == getOutpoint(layer.ref.outpoints, i.ctx, w)
    IN  [layer |->
            [layer EXCEPT !.params =
                [depth |-> Sub(d1.ret, d2.ret),
                 inpoint |-> i.ret,
                 outpoint |-> o.ret,
                 speed |-> layer.ref.speed,
                 transitions |-> getTransitions(el),
                 transitionStart |-> getTransitionStart(el),
                 transitionEnd |-> getTransitionEnd(el)]],
         ctx |-> o.ctx]

NoParams ==
    [depth |-> Undefined, inpoint |-> Undefined, outpoint |-> Undefined,
     speed |-> Undefined, transitions |-> TRUE,
     transitionStart |-> Undefined, transitionEnd |-> Undefined]

\* new PushInLayer(element, index, scene, options); elem is the position of
\* the element among the container's layer elements.
NewLayer(el, index, sceneFrom, top, layers, ctx, w) ==
    LET inpoints == getInpoints(el, index, sceneFrom, top, layers)
        outpoints == getOutpoints(el, At(inpoints, 0))
        made == [elem |-> index + 1,
                 index |-> index,
                 originalScale |-> getElementScaleX(el),
                 ref |-> [inpoints |-> inpoints, outpoints |-> outpoints,
                          speed |-> PushInLayer_getSpeed(el)],
                 params |-> NoParams]
    IN  setLayerParams(made, el, ctx, w)

\* setZIndex counting up instead of down.
setZIndexAscending(st, layer, total) == [st EXCEPT !.zIndex = layer.index + 1]

\* setZIndex: the new value of the element's style.
setZIndex(st, layer, total) == [st EXCEPT !.zIndex = total - layer.index]

\* PushIn.getLayers: one layer per layer element of the container, in
\* document order, pushed onto this.layers; every element gets its z-index.
RECURSIVE getLayersFrom(_, _, _, _, _, _, _)
getLayersFrom(i, elems, sceneFrom, top, acc, ctx, w) ==
    IF i >= Len(elems) THEN acc @@ [ctx |-> ctx]
    ELSE LET made == NewLayer(elems[i + 1], i, sceneFrom, top, acc.layers, ctx, w)
         IN  getLayersFrom(i + 1, elems, sceneFrom, top,
                [layers |-> Append(acc.layers, made.layer),
                 style |-> [acc.style EXCEPT
                    ![i + 1] = setZIndex(@, made.layer, Len(elems))]],
                made.ctx, w)

getLayers(elems, sceneFrom, top, layers, style, ctx, w) ==
    getLayersFrom(0, elems, sceneFrom, top,
                  [layers |-> layers, style |-> style], ctx, w)

RECURSIVE resetLayerParamsFrom(_, _, _, _, _)

\* resetLayerParams looking up the breakpoint index once itself before it
\* resolves the layers.
resetLayerParamsIndexFirst(elems, layers, ctx, w) ==
    resetLayerParamsFrom(1, elems, layers, getBreakpointIndex(ctx, w).ctx, w)

\* PushIn.resetLayerParams: every layer's params are resolved again.
resetLayerParamsFrom(i, elems, layers, ctx, w) ==
    IF i > Len(layers) THEN [layers |-> layers, ctx |-> ctx]
    ELSE LET r == setLayerParams(layers[i], elems[layers[i].elem], ctx, w)
         IN  resetLayerParamsFrom(i + 1, elems,
                                  [layers EXCEPT ![i] = r.layer], r.ctx, w)

resetLayerParams(elems, layers, ctx, w) ==
    resetLayerParamsFrom(1, elems, layers, ctx, w)

(***************************************************************************)
(* PushInLayer: scale and opacity.                                         *)
(***************************************************************************)
\* getScaleValue without the limit of 100 on the speed.
getScaleValueUnlimited(layer, scrollY) ==
    LET distance == Sub(scrollY, layer.params.inpoint)
        speed == Div(layer.params.speed, Num(100))
        delta == Div(Mul(distance, speed), Num(100))
    IN  MathMax(Add(layer.originalScale, delta), Num(0))

\* getScaleValue with the speed limited from below as well, to 0..100.
getScaleValueClamped(layer, scrollY) ==
    LET distance == Sub(scrollY, layer.params.inpoint)
        speed == Div(MathMax(MathMin(layer.params.speed, Num(100)), Num(0)),
                     Num(100))
        delta == Div(Mul(distance, speed), Num(100))
    IN  MathMax(Add(layer.originalScale, delta), Num(0))

getScaleValue(layer, scrollY) ==
    LET distance == Sub(scrollY, layer.params.inpoint)
        speed == Div(MathMin(layer.params.speed, Num(100)), Num(100))
        delta == Div(Mul(distance, speed), Num(100))
    IN  MathMax(Add(layer.originalScale, delta), Num(0))

isActive(layer, scrollY) ==
    IF layer.params.transitions
    THEN Ge(scrollY, layer.params.inpoint) /\ Le(scrollY, layer.params.outpoint)
    ELSE TRUE

\* The two fade ratios of the active branch of setLayerStyle.
inpointDistance(layer, scrollY) ==
    Div(MathMax(MathMin(Sub(scrollY, layer.params.inpoint),
                        layer.params.transitionStart), Num(0)),
        layer.params.transitionStart)

outpointDistance(layer, scrollY) ==
    Div(MathMax(MathMin(Sub(layer.params.outpoint, scrollY),
                        layer.params.transitionEnd), Num(0)),
        layer.params.transitionEnd)

\* setLayerStyle starting from opacity 1 instead of 0.
setLayerStyleShown(st, layer, total, scrollY) ==
    LET isFirst == layer.index = 0
        isLast == layer.index + 1 = total
        scaled == [st EXCEPT !.scale = getScaleValue(layer, scrollY)]
        inD == IF isFirst THEN Num(1) ELSE inpointDistance(layer, scrollY)
        outD == IF isLast THEN Num(1) ELSE outpointDistance(layer, scrollY)
    IN  IF isFirst /\ Lt(scrollY, layer.params.inpoint)
        THEN [st EXCEPT !.opacity = Num(1)]
        ELSE IF isLast /\ Gt(scrollY, layer.params.outpoint)
        THEN IF ~layer.params.transitions
             THEN [scaled EXCEPT !.opacity = Num(1)]
             ELSE [st EXCEPT !.opacity = Num(1)]
        ELSE IF isActive(layer, scrollY)
        THEN [scaled EXCEPT !.opacity =
                 IF layer.params.transitions THEN MathMin(inD, outD)
                 ELSE Num(1)]
        ELSE [st EXCEPT !.opacity = Num(1)]

\* setLayerStyle taking the layer numbered total, which does not exist, for
\* the last one.
setLayerStyleNoLast(st, layer, total, scrollY) ==
    LET isFirst == layer.index = 0
        scaled == [st EXCEPT !.scale = getScaleValue(layer, scrollY)]
        inD == IF isFirst THEN Num(1) ELSE inpointDistance(layer, scrollY)
        outD == outpointDistance(layer, scrollY)
    IN  IF isFirst /\ Lt(scrollY, layer.params.inpoint)
        THEN [st EXCEPT !.opacity = Num(1)]
        ELSE IF isActive(layer, scrollY)
        THEN [scaled EXCEPT !.opacity =
                 IF layer.params.transitions THEN MathMin(inD, outD)
                 ELSE Num(1)]
        ELSE [st EXCEPT !.opacity = Num(0)]

\* setLayerStyle that writes no scale for the last layer past its outpoint.
setLayerStyleLastUnscaled(st, layer, total, scrollY) ==
    LET isFirst == layer.index = 0
        isLast == layer.index + 1 = total
        scaled == [st EXCEPT !.scale = getScaleValue(layer, scrollY)]
        inD == IF isFirst THEN Num(1) ELSE inpointDistance(layer, scrollY)
        outD == IF isLast THEN Num(1) ELSE outpointDistance(layer, scrollY)
    IN  IF isFirst /\ Lt(scrollY, layer.params.inpoint)
        THEN [st EXCEPT !.opacity = Num(1)]
        ELSE IF isLast /\ Gt(scrollY, layer.params.outpoint)
        THEN [st EXCEPT !.opacity = Num(1)]
        ELSE IF isActive(layer, scrollY)
        THEN [scaled EXCEPT !.opacity =
                 IF layer.params.transitions THEN MathMin(inD, outD)
                 ELSE Num(1)]
        ELSE [st EXCEPT !.opacity = Num(0)]

\* setLayerStyle: the new value of the element's style; total is
\* this.layers.length.
setLayerStyle(st, layer, total, scrollY) ==
    LET isFirst == layer.index = 0
        isLast == layer.index + 1 = total
        inpoint == layer.params.inpoint
        outpoint == layer.params.outpoint
        scaled == [st EXCEPT !.scale = getScaleValue(layer, scrollY)]
        inD == IF isFirst THEN Num(1) ELSE inpointDistance(layer, scrollY)
        outD == IF isLast THEN Num(1) ELSE outpointDistance(layer, scrollY)
    IN  IF isFirst /\ Lt(scrollY, inpoint)
        THEN [st EXCEPT !.opacity = Num(1)]
        ELSE IF isLast /\ Gt(scrollY, outpoint)
        THEN IF ~layer.params.transitions
             THEN [scaled EXCEPT !.opacity = Num(1)]
             ELSE [st EXCEPT !.opacity = Num(1)]
        ELSE IF isActive(layer, scrollY)
        THEN [scaled EXCEPT !.opacity =
                 IF layer.params.transitions THEN MathMin(inD, outD)
                 ELSE Num(1)]
        ELSE [st EXCEPT !.opacity = Num(0)]

\* PushIn.toggleLayers: setLayerStyle on every layer of this.layers in order.
RECURSIVE toggleLayersFrom(_, _, _, _)
toggleLayersFrom(i, layers, style, scrollY) ==
    IF i > Len(layers) THEN style
    ELSE toggleLayersFrom(i + 1, layers,
            [style EXCEPT ![layers[i].elem] =
                setLayerStyle(@, layers[i], Len(layers), scrollY)],
            scrollY)

toggleLayers(layers, style, scrollY) == toggleLayersFrom(1, layers, style, scrollY)

\* PushIn.setScrollLength: the container's new height.
setScrollLength(height, total) ==
    LET transitions == (total - 1) * speedDelta
        scrollLength == total * (layerDepth + transitionLength)
    IN  IF height > scrollLength - transitions THEN height
        ELSE scrollLength - transitions

(***************************************************************************)
(* The browser's timers: a set of pending timers, each with its id and the *)
(* time left before it is due.                                             *)
(***************************************************************************)
\* The resize listener without its clearTimeout: the pending timer stays.
clearTimeoutNothing(ts, id) == ts

clearTimeout(ts, id) == {t \in ts : t.id # id}

FreshTimerId(ts) ==
    CHOOSE i \in 1..(Cardinality(ts) + 1) :
        /\ \A t \in ts : t.id # i
        /\ \A j \in 1..(i - 1) : \E t \in ts : t.id = j

setTimeout(ts, delay) == ts \cup {[id |-> FreshTimerId(ts), left |-> delay]}

(***************************************************************************)
(* Bounds and the inputs of the model.                                     *)
(***************************************************************************)
\* The most animation-frame callbacks waiting for one frame.
MaxPending == 2

\* The time that passes in one step of the clock.
TimeStep == 100

\* The longest burst of resize events that is counted.
MaxBurst == 2

Widths == {400, 1000, 2000}

ScrollPositions == {0, 150, 950, 1950, 2900}

TouchYs == {100, 300}

\* window.innerHeight
innerHeight == Num(800)

\* this.pageHeight: read by the touchmove listener and assigned nowhere.
pageHeight == Undefined

SceneDefault ==
    [elems |-> <<PlainLayer,
                 [PlainLayer EXCEPT !.speed = Attr(<<"5", "0">>)],
                 [PlainLayer EXCEPT !.speed = Attr(<<"a", "b", "c">>)]>>,
     sceneFrom |-> NoAttr, breakpoints |-> NoAttr, top |-> Num(0), height |-> 0]

SceneResponsive ==
    [elems |-> <<[PlainLayer EXCEPT
                    !.from = Attr(<<"1","0","0",",","1","5","0",",","2","0","0",",","2","5","0">>),
                    !.to = Attr(<<"6","0","0",",","7","0","0",",","8","0","0",",","9","0","0">>)],
                 [PlainLayer EXCEPT
                    !.from = Attr(<<"5","0","0",","," ","0">>),
                    !.to = Attr(<<"1","9","0","0">>),
                    !.speed = Attr(<<"0">>)]>>,
     sceneFrom |-> NoAttr, breakpoints |-> NoAttr, top |-> Num(0), height |-> 5000]

SceneInverted ==
    [elems |-> <<PlainLayer,
                 [PlainLayer EXCEPT
                    !.from = Attr(<<"2","0","0","0">>),
                    !.to = Attr(<<"1","0","0","0">>)]>>,
     sceneFrom |-> NoAttr, breakpoints |-> Attr(<<"5","0","0",",","1","0","0","0">>),
     top |-> Num(0), height |-> 0]

SceneNoTransitions ==
    [elems |-> <<[PlainLayer EXCEPT
                    !.transitions = Attr(<<"f","a","l","s","e">>),
                    !.transform = [none |-> FALSE, a |-> Rat(1, 2)]],
                 [PlainLayer EXCEPT
                    !.transitions = Attr(<<"0">>),
                    !.speed = Attr(<<"1","5","0">>)]>>,
     sceneFrom |-> Attr(<<"1","5","0">>), breakpoints |-> NoAttr,
     top |-> Num(0), height |-> 0]

SceneSingle ==
    [elems |-> <<[PlainLayer EXCEPT !.from = Attr(<<"9","5","0">>)]>>,
     sceneFrom |-> NoAttr, breakpoints |-> NoAttr, top |-> Num(0), height |-> 0]

\* A layer with one outpoint per breakpoint, followed by a layer with no
\* inpoints of its own.
SceneChained ==
    [elems |-> <<[PlainLayer EXCEPT
                    !.to = Attr(<<"6","0","0",",","7","0","0",",","8","0","0",",","9","0","0">>)],
                 PlainLayer>>,
     sceneFrom |-> NoAttr, breakpoints |-> NoAttr, top |-> Num(0), height |-> 0]

Scenes ==
    {SceneDefault, SceneResponsive, SceneInverted, SceneNoTransitions,
     SceneSingle, SceneChained}

(***************************************************************************)
(* The state.                                                              *)
(***************************************************************************)
VARIABLES
    dom,             \* the container: its layer elements and the scene's attributes
    innerWidth,      \* window.innerWidth
    started,         \* start() has run
    listeners,       \* the times bindEvents has added its listeners
    breakpoints,     \* this.breakpoints
    layers,          \* this.layers
    style,           \* the inline style of every layer element
    containerHeight, \* the container's height
    scrollPos,       \* this.scrollPos
    touchStart,      \* this.touchStart
    scrollEnd,       \* this.scrollEnd
    touching,        \* a finger is on the screen
    rafQueue,        \* the callbacks requestAnimationFrame holds for the next frame
    timers,          \* the pending timers
    resizeTimeout,   \* the resize listener's timer id (0: undefined)
    lastEvent,       \* the handler that ran last
    rendersInFrame,  \* toggleLayers passes run by the last animation frame (0 once a
                     \* callback waits for the next one)
    bpLog,           \* the indexes getBreakpointIndex returned in the last handler that called it
    bpWidth,         \* window.innerWidth in that handler
    resizeRuns,      \* resize recomputations run since the last resize event
    sinceResize,     \* time since the last resize event, up to ResizeDelay
    burst,           \* resize events of the current burst, up to MaxBurst
    probe,           \* the arguments of a function called on its own
    result           \* what that call returned

vars ==
    <<dom, innerWidth, started, listeners, breakpoints, layers, style,
      containerHeight, scrollPos, touchStart, scrollEnd, touching, rafQueue, timers,
      resizeTimeout, lastEvent, rendersInFrame, bpLog, bpWidth, resizeRuns,
      sinceResize, burst, probe, result>>

\* The program's own state, without the two variables of a call on its own.
progVars ==
    <<dom, innerWidth, started, listeners, breakpoints, layers, style,
      containerHeight, scrollPos, touchStart, scrollEnd, touching, rafQueue, timers,
      resizeTimeout, lastEvent, rendersInFrame, bpLog, bpWidth, resizeRuns,
      sinceResize, burst>>

probeVars == <<probe, result>>

sceneVars == <<dom, breakpoints, layers, style, containerHeight>>

touchVars == <<touchStart, scrollEnd, touching>>

resizeVars == <<innerWidth, timers, resizeTimeout, resizeRuns, sinceResize, burst>>

logVars == <<bpLog, bpWidth>>

\* The inline style of an element nothing was written to (zIndex 0: not set).
NoStyle == [zIndex |-> 0, opacity |-> Undefined, scale |-> Undefined]

NoProbe == [fn |-> "none"]

\* The state after new PushIn(container) on the document scene in a window
\* of width w.
Constructed(scene, w) ==
    /\ dom = scene
    /\ innerWidth = w
    /\ started = FALSE
    /\ listeners = 0
    /\ breakpoints = <<>>
    /\ layers = <<>>
    /\ style = [i \in 1..Len(scene.elems) |-> NoStyle]
    /\ containerHeight = scene.height
    /\ scrollPos = Undefined
    /\ touchStart = Undefined
    /\ scrollEnd = Undefined
    /\ touching = FALSE
    /\ rafQueue = 0
    /\ timers = {}
    /\ resizeTimeout = 0
    /\ lastEvent = "new"
    /\ rendersInFrame = 0
    /\ bpLog = <<>>
    /\ bpWidth = w
    /\ resizeRuns = 0
    /\ sinceResize = ResizeDelay
    /\ burst = 0

Init ==
    /\ \E scene \in Scenes, w \in Widths : Constructed(scene, w)
    /\ probe = NoProbe
    /\ result = NoProbe

(***************************************************************************)
(* start(): y is window.pageYOffset.                                       *)
(***************************************************************************)
Start ==
    /\ ~started
    /\ \E y \in ScrollPositions :
        LET bps == setBreakpoints(dom.breakpoints)
            got == getLayers(dom.elems, dom.sceneFrom, dom.top, layers, style,
                             [bps |-> bps, log |-> <<>>], Num(innerWidth))
        IN  /\ scrollPos' = Num(y)
            /\ breakpoints' = got.ctx.bps
            /\ layers' = got.layers
            /\ containerHeight' = setScrollLength(containerHeight, Len(got.layers))
            /\ style' = toggleLayers(got.layers, got.style, Num(y))
            /\ bpLog' = got.ctx.log
            /\ bpWidth' = innerWidth
    /\ started' = TRUE
    /\ listeners' = listeners + 1
    /\ lastEvent' = "start"
    /\ UNCHANGED <<probeVars, dom, touchVars, rafQueue, resizeVars, rendersInFrame>>

\* The calls of start() on one instance that are enumerated.
MaxStarts == 3

\* start() on an instance that has been started: the constructor alone sets
\* this.layers to [], so getLayers pushes onto the layers that are there, and
\* bindEvents adds its listeners once more.
StartAgain ==
    /\ started
    /\ listeners < MaxStarts
    /\ \E y \in ScrollPositions :
        LET bps == setBreakpoints(dom.breakpoints)
            got == getLayers(dom.elems, dom.sceneFrom, dom.top, layers, style,
                             [bps |-> bps, log |-> <<>>], Num(innerWidth))
        IN  /\ scrollPos' = Num(y)
            /\ breakpoints' = got.ctx.bps
            /\ layers' = got.layers
            /\ containerHeight' = setScrollLength(containerHeight, Len(got.layers))
            /\ style' = toggleLayers(got.layers, got.style, Num(y))
            /\ bpLog' = got.ctx.log
            /\ bpWidth' = innerWidth
    /\ listeners' = listeners + 1
    /\ lastEvent' = "start"
    /\ UNCHANGED <<probeVars, dom, started, touchVars, rafQueue, resizeVars,
                   rendersInFrame>>

(***************************************************************************)
(* The listeners of bindEvents.                                            *)
(***************************************************************************)
\* dolly that asks for no animation frame.
dollyDropped(queue) == queue

\* dolly(): one more callback waits for the next frame.
dolly(queue) == queue + 1

\* 'scroll': y is window.pageYOffset.
Scroll ==
    /\ started
    /\ rafQueue < MaxPending
    /\ \E y \in ScrollPositions : scrollPos' = Num(y)
    /\ rafQueue' = dolly(rafQueue)
    /\ rendersInFrame' = 0
    /\ lastEvent' = "scroll"
    /\ UNCHANGED <<probeVars, listeners, sceneVars, started, touchVars, resizeVars, logVars>>

\* 'touchstart': y is the touch's screenY.
TouchStart ==
    /\ started
    /\ ~touching
    /\ \E y \in TouchYs : touchStart' = Num(y)
    /\ touching' = TRUE
    /\ lastEvent' = "touchstart"
    /\ UNCHANGED <<probeVars, listeners, sceneVars, started, scrollPos, scrollEnd, rafQueue, resizeVars,
                   rendersInFrame, logVars>>

\* The scroll position the touchmove listener computes.
touchScrollPos(end, start, move) ==
    MathMin(MathMax(Sub(Add(ToNumber(end), ToNumber(start)), move), Num(0)),
            Sub(ToNumber(pageHeight), innerHeight))

\* 'touchmove': y is the touch's screenY.
TouchMove ==
    /\ started
    /\ touching
    /\ rafQueue < MaxPending
    /\ \E y \in TouchYs : scrollPos' = touchScrollPos(scrollEnd, touchStart, Num(y))
    /\ rafQueue' = dolly(rafQueue)
    /\ rendersInFrame' = 0
    /\ lastEvent' = "touchmove"
    /\ UNCHANGED <<probeVars, listeners, sceneVars, started, touchVars, resizeVars, logVars>>

\* 'touchend'
TouchEnd ==
    /\ started
    /\ touching
    /\ scrollEnd' = scrollPos
    /\ touching' = FALSE
    /\ lastEvent' = "touchend"
    /\ UNCHANGED <<probeVars, listeners, sceneVars, started, scrollPos, touchStart, rafQueue, resizeVars,
                   rendersInFrame, logVars>>

\* 'resize': w is the new window.innerWidth.  The pending timer is cleared
\* and a new one is set.
Resize ==
    /\ started
    /\ \E w \in Widths : innerWidth' = w
    /\ timers' = setTimeout(clearTimeout(timers, resizeTimeout), ResizeDelay)
    /\ resizeTimeout' = FreshTimerId(clearTimeout(timers, resizeTimeout))
    /\ resizeRuns' = 0
    /\ burst' = IF sinceResize < ResizeDelay
                THEN (IF burst < MaxBurst THEN burst + 1 ELSE burst)
                ELSE 1
    /\ sinceResize' = 0
    /\ lastEvent' = "resize"
    /\ UNCHANGED <<probeVars, listeners, sceneVars, started, scrollPos, touchVars, rafQueue,
                   rendersInFrame, logVars>>

\* Time passes.
Tick ==
    /\ started
    /\ timers' = {[t EXCEPT !.left = IF @ > TimeStep THEN @ - TimeStep ELSE 0] : t \in timers}
    /\ sinceResize' = IF sinceResize + TimeStep < ResizeDelay
                      THEN sinceResize + TimeStep ELSE ResizeDelay
    /\ lastEvent' = "tick"
    /\ UNCHANGED <<probeVars, listeners, sceneVars, started, scrollPos, touchVars, rafQueue, innerWidth,
                   resizeTimeout, resizeRuns, burst, rendersInFrame, logVars>>

\* A due timer runs the resize listener's callback: resetLayerParams,
\* setScrollLength, toggleLayers.
TimerFire ==
    /\ \E t \in timers :
        /\ t.left = 0
        /\ timers' = timers \ {t}
    /\ LET reset == resetLayerParams(dom.elems, layers,
                                     [bps |-> breakpoints, log |-> <<>>],
                                     Num(innerWidth))
       IN  /\ layers' = reset.layers
           /\ breakpoints' = reset.ctx.bps
           /\ containerHeight' = setScrollLength(containerHeight, Len(layers))
           /\ style' = toggleLayers(reset.layers, style, scrollPos)
           /\ bpLog' = reset.ctx.log
           /\ bpWidth' = innerWidth
    /\ resizeRuns' = resizeRuns + 1
    /\ lastEvent' = "timer"
    /\ UNCHANGED <<probeVars, listeners, dom, started, scrollPos, touchVars, rafQueue, innerWidth,
                   resizeTimeout, sinceResize, burst, rendersInFrame>>

\* k passes of toggleLayers.
RECURSIVE toggleLayersTimes(_, _, _, _)
toggleLayersTimes(k, ls, st, scrollY) ==
    IF k = 0 THEN st
    ELSE toggleLayersTimes(k - 1, ls, toggleLayers(ls, st, scrollY), scrollY)

\* An animation frame: every callback requestAnimationFrame holds is run.
Frame ==
    /\ rafQueue > 0
    /\ style' = toggleLayersTimes(rafQueue, layers, style, scrollPos)
    /\ rendersInFrame' = rafQueue
    /\ rafQueue' = 0
    /\ lastEvent' = "frame"
    /\ UNCHANGED <<probeVars, listeners, dom, breakpoints, layers, containerHeight, started, scrollPos,
                   touchVars, resizeVars, logVars>>

\* The page is scrolled and touched at a fixed window width.
Next ==
    \/ Start
    \/ Scroll
    \/ TouchStart
    \/ TouchMove
    \/ TouchEnd
    \/ Frame

Spec == Init /\ [][Next]_vars

\* What a frame does to the callbacks requestAnimationFrame holds: all of
\* them are run and none is left.  Frame is the only action that takes
\* callbacks off the queue, so a step is a FrameRuns step exactly when it is a
\* Frame step.
FrameRuns ==
    /\ rafQueue > 0
    /\ rafQueue' = 0

\* The page is scrolled, and the browser runs every animation frame that was
\* asked for: a callback of requestAnimationFrame is run before the next
\* repaint, so a frame that stays due is eventually run.
NextScroll ==
    \/ Start
    \/ Scroll
    \/ Frame

SpecScroll == Init /\ [][NextScroll]_vars /\ WF_rafQueue(FrameRuns)

\* start() is called on the instance time and again.
NextRestart ==
    \/ Start
    \/ StartAgain

SpecRestart == Init /\ [][NextRestart]_vars

\* The window is resized while the page stays where it was at start().
NextResize ==
    \/ Start
    \/ Resize
    \/ Tick
    \/ TimerFire

SpecResize == Init /\ [][NextResize]_vars

(***************************************************************************)
(* Functions called on their own.  The program's state stays as it is      *)
(* after construction; probe holds the arguments and result what the call  *)
(* returned.                                                               *)
(***************************************************************************)
\* The longest list of per-breakpoint values that is enumerated.
MaxValues == 3

ResolveValues == {Num(0), NaN, Num(100), Num(150)}

ValueLists ==
    UNION {[1..n -> ResolveValues] : n \in 1..MaxValues}
        \cup {<<Num(100), Num(150), Num(200), Num(250)>>}

ResolveWidths == {400, 1000, 1500}

InitResolve ==
    /\ Constructed(SceneSingle, 1000)
    /\ probe \in [fn : {"resolve"}, values : ValueLists,
                  bps : {setBreakpoints(NoAttr)}, w : ResolveWidths]
    /\ result = NoProbe

\* getInpoint(values) with this.breakpoints as the calls before left it.
CallGetInpoint ==
    /\ probe.fn = "resolve"
    /\ LET r == getInpoint(probe.values, [bps |-> probe.bps, log |-> <<>>],
                           Num(probe.w))
       IN  /\ result' = [fn |-> "getInpoint", ret |-> r.ret, index |-> r.ctx.log[1]]
           /\ probe' = [probe EXCEPT !.bps = r.ctx.bps]
    /\ UNCHANGED progVars

CallGetOutpoint ==
    /\ probe.fn = "resolve"
    /\ LET r == getOutpoint(probe.values, [bps |-> probe.bps, log |-> <<>>],
                            Num(probe.w))
       IN  /\ result' = [fn |-> "getOutpoint", ret |-> r.ret, index |-> r.ctx.log[1]]
           /\ probe' = [probe EXCEPT !.bps = r.ctx.bps]
    /\ UNCHANGED progVars

NextResolve ==
    \/ CallGetInpoint
    \/ CallGetOutpoint

SpecResolve == InitResolve /\ [][NextResolve]_vars

ScaleScrolls == {0, 150, 200, 950, 2900}

ScaleInpoints == {0, 150, 2000}

ScaleOriginals == {Num(0), Rat(1, 2), Num(1)}

ScaleSpeeds == {-50, 8, 50, 100, 150}

InitScale ==
    /\ Constructed(SceneSingle, 1000)
    /\ probe \in [fn : {"scale"}, scrollY : ScaleScrolls, inpoint : ScaleInpoints,
                  originalScale : ScaleOriginals, speed : ScaleSpeeds]
    /\ result = NoProbe

CallGetScaleValue ==
    /\ probe.fn = "scale"
    /\ result.fn = "none"
    /\ result' =
        [fn |-> "getScaleValue",
         ret |-> getScaleValue(
                    [originalScale |-> probe.originalScale,
                     params |-> [NoParams EXCEPT !.inpoint = Num(probe.inpoint),
                                                 !.speed = Num(probe.speed)]],
                    Num(probe.scrollY))]
    /\ UNCHANGED <<progVars, probe>>

NextScale == CallGetScaleValue

SpecScale == InitScale /\ [][NextScale]_vars

\* Values of data-pushin-speed, each with the integer it holds: NaN when it
\* holds none.
SpeedAttrs ==
    {[s |-> <<"5", "0">>, n |-> Num(50)],
     [s |-> <<"a", "b", "c">>, n |-> NaN],
     [s |-> <<"0">>, n |-> Num(0)],
     [s |-> <<"-", "5">>, n |-> Num(-5)],
     [s |-> <<"1", "2", "p", "x">>, n |-> Num(12)],
     [s |-> <<" ", "7">>, n |-> Num(7)],
     [s |-> <<"1", "5", "0">>, n |-> Num(150)],
     [s |-> <<"+", "3">>, n |-> Num(3)],
     [s |-> <<"-">>, n |-> NaN],
     [s |-> <<"p", "x", "9">>, n |-> NaN],
     [s |-> <<>>, n |-> NaN]}

SpeedOptions ==
    {NoOptions,
     [NoOptions EXCEPT !.present = TRUE],
     [NoOptions EXCEPT !.present = TRUE, !.speed = Num(120)],
     [NoOptions EXCEPT !.present = TRUE, !.speed = Num(0)]}

InitSpeed ==
    /\ Constructed(SceneSingle, 1000)
    /\ probe \in [fn : {"speed"}, has : BOOLEAN, attr : SpeedAttrs,
                  options : SpeedOptions]
    /\ ~probe.has => probe.attr.s = <<>>
    /\ result = NoProbe

\* The layer element of a probe.
ProbeElement ==
    [PlainLayer EXCEPT
        !.speed = IF probe.has THEN Attr(probe.attr.s) ELSE NoAttr,
        !.options = probe.options]

CallGetSpeed ==
    /\ probe.fn = "speed"
    /\ result' = [fn |-> "getSpeed", ret |-> getSpeed(ProbeElement)]
    /\ UNCHANGED <<progVars, probe>>

CallLayerGetSpeed ==
    /\ probe.fn = "speed"
    /\ result' = [fn |-> "PushInLayer.getSpeed",
                  ret |-> PushInLayer_getSpeed(ProbeElement)]
    /\ UNCHANGED <<progVars, probe>>

NextSpeed ==
    \/ CallGetSpeed
    \/ CallLayerGetSpeed

SpecSpeed == InitSpeed /\ [][NextSpeed]_vars

(***************************************************************************)
(* The speed configured on an element, resolved by getSpeed and then used  *)
(* by getScaleValue.                                                       *)
(***************************************************************************)
InitSpeedScale ==
    /\ Constructed(SceneSingle, 1000)
    /\ probe \in [fn : {"speedscale"}, has : BOOLEAN, attr : SpeedAttrs,
                  options : SpeedOptions, scrollY : ScaleScrolls,
                  inpoint : ScaleInpoints, originalScale : ScaleOriginals]
    /\ ~probe.has => probe.attr.s = <<>>
    /\ result = NoProbe

\* The layer of a probe, with the resolved speed in its params.
ProbeLayer(speed) ==
    [originalScale |-> probe.originalScale,
     params |-> [NoParams EXCEPT !.inpoint = Num(probe.inpoint),
                                 !.speed = speed]]

\* pushin.js: getSpeed(element), then getScaleValue(layer).
CallSceneScale ==
    /\ probe.fn = "speedscale"
    /\ result.fn = "none"
    /\ LET speed == getSpeed(ProbeElement)
       IN  result' = [fn |-> "PushIn.getScaleValue", speed |-> speed,
                      ret |-> getScaleValue(ProbeLayer(speed),
                                            Num(probe.scrollY))]
    /\ UNCHANGED <<progVars, probe>>

\* PushInLayer: getSpeed() at construction, then getScaleValue().
CallLayerScale ==
    /\ probe.fn = "speedscale"
    /\ result.fn = "none"
    /\ LET speed == PushInLayer_getSpeed(ProbeElement)
       IN  result' = [fn |-> "PushInLayer.getScaleValue", speed |-> speed,
                      ret |-> getScaleValue(ProbeLayer(speed),
                                            Num(probe.scrollY))]
    /\ UNCHANGED <<progVars, probe>>

NextSpeedScale ==
    \/ CallSceneScale
    \/ CallLayerScale

SpecSpeedScale == InitSpeedScale /\ [][NextSpeedScale]_vars

(***************************************************************************)
(* One layer element with its numeric attributes, constructed as a layer   *)
(* and then resolved again as a resize does.                               *)
(***************************************************************************)
AttrChoices ==
    {c \in [has : BOOLEAN, attr : SpeedAttrs] : ~c.has => c.attr.s = <<>>}

InitLayer ==
    /\ Constructed(SceneSingle, 1000)
    /\ probe \in [fn : {"layer"}, speed : AttrChoices,
                  transitionStart : AttrChoices, transitionEnd : AttrChoices]
    /\ result = NoProbe

ChosenAttr(c) == IF c.has THEN Attr(c.attr.s) ELSE NoAttr

\* The layer element of a probe.
ProbeLayerElement ==
    [PlainLayer EXCEPT
        !.speed = ChosenAttr(probe.speed),
        !.transitionStart = ChosenAttr(probe.transitionStart),
        !.transitionEnd = ChosenAttr(probe.transitionEnd)]

\* new PushInLayer(element, 0, scene, null) in a started scene.
ConstructLayer ==
    /\ probe.fn = "layer"
    /\ result.fn = "none"
    /\ LET made == NewLayer(ProbeLayerElement, 0, NoAttr, Num(0), <<>>,
                            [bps |-> setBreakpoints(NoAttr), log |-> <<>>],
                            Num(innerWidth))
       IN  result' = [fn |-> "new PushInLayer", layer |-> made.layer,
                      bps |-> made.ctx.bps]
    /\ UNCHANGED <<progVars, probe>>

\* layer.resetLayerParams(), as the resize timer calls it.
RecomputeLayer ==
    /\ probe.fn = "layer"
    /\ result.fn = "new PushInLayer"
    /\ LET again == setLayerParams(result.layer, ProbeLayerElement,
                                   [bps |-> result.bps, log |-> <<>>],
                                   Num(innerWidth))
       IN  result' = [fn |-> "resetLayerParams", layer |-> again.layer,
                      bps |-> again.ctx.bps]
    /\ UNCHANGED <<progVars, probe>>

NextLayer ==
    \/ ConstructLayer
    \/ RecomputeLayer

SpecLayer == InitLayer /\ [][NextLayer]_vars

(***************************************************************************)
(* Properties.                                                             *)
(***************************************************************************)
\* The last handler wrote every layer's style from the current scroll
\* position and the current params.
Rendered == lastEvent \in {"start", "timer", "frame"}

IsAscending(B) == \A i \in 1..(Len(B) - 1) : Lt(B[i], B[i + 1])

\* The largest 0-based index i with B[i] <= w.
LargestIndex(B, w) ==
    CHOOSE i \in 0..(Len(B) - 1) :
        /\ Le(B[i + 1], w)
        /\ \A j \in (i + 1)..(Len(B) - 1) : ~Le(B[j + 1], w)

\* C1: for an ascending breakpoint list B with B[0] = 0 and a viewport width
\* W >= 0, every call of getBreakpointIndex made by start() or by a resize
\* recomputation returns the largest index i with B[i] <= W, the first call
\* and every later one.
C1_EveryCallReturnsLargestIndex ==
    LET B == setBreakpoints(dom.breakpoints)
    IN  IsAscending(B) /\ B[1] = Num(0) =>
            \A k \in 1..Len(bpLog) : bpLog[k] = LargestIndex(B, Num(bpWidth))

\* C2: however many scroll or touchmove events arrive between two animation
\* frames, the next frame runs at most one toggleLayers pass.
C2_AtMostOneRenderPerFrame == rendersInFrame <= 1

\* C3: in a burst of resize events, each less than ResizeDelay after the one
\* before, no recomputation runs between the events, and after the last event
\* exactly one runs (it is pending in the one timer left, or it has run, and
\* then ResizeDelay or more after that event).
C3_ResizeDebounced ==
    resizeTimeout # 0 =>
        /\ Cardinality(timers) <= 1
        /\ resizeRuns <= 1
        /\ resizeRuns = 0 <=> (\E t \in timers : t.id = resizeTimeout)
        /\ resizeRuns = 1 => sinceResize >= ResizeDelay

\* A burst of two or more resize events has ended and its one recomputation
\* has run.
C3_Witness == burst >= 2 /\ resizeRuns = 1 /\ lastEvent = "timer"

\* C4: after every touchmove event the scroll position is a number in
\* [0, pageHeight - viewportHeight]: not negative, not undefined, not NaN.
C4_TouchMoveScrollPosInRange ==
    lastEvent = "touchmove" =>
        /\ IsNum(scrollPos)
        /\ Ge(scrollPos, Num(0))
        /\ Le(scrollPos, Sub(ToNumber(pageHeight), innerHeight))

\* C5: handed the breakpoint index k, getInpoint and getOutpoint return
\* values[k] when that entry is there and is a number other than 0, and
\* values[0] in every other case (values[k] is 0, is NaN, or the list has no
\* entry k).
C5_ResolverFallsBackToFirst ==
    result.fn \in {"getInpoint", "getOutpoint"} =>
        LET v == probe.values
            k == result.index
        IN  IF k < Len(v) /\ v[k + 1].t = "num" /\ v[k + 1].n # 0
            THEN result.ret = v[k + 1]
            ELSE result.ret = v[1]

\* Index 1 and inpoints [100, 150, 200, 250] gave 150.
C5_Witness ==
    /\ result.fn = "getInpoint"
    /\ result.index = 1
    /\ probe.values = <<Num(100), Num(150), Num(200), Num(250)>>
    /\ result.ret = Num(150)

\* C6: getScaleValue returns
\* max(originalScale + (scrollPos - inpoint) * min(speed, 100) / 10000, 0):
\* never negative, originalScale when scrollPos = inpoint, and 2 for speed 50,
\* originalScale 1, inpoint 0 and scrollPos 200.
C6_ScaleValueFormula ==
    result.fn = "getScaleValue" =>
        LET o == probe.originalScale
            sp == IF probe.speed < 100 THEN probe.speed ELSE 100
            num == o.n * 10000 + o.d * (probe.scrollY - probe.inpoint) * sp
            den == o.d * 10000
            r == result.ret
        IN  /\ r.t = "num" /\ r.n >= 0 /\ r.d > 0
            /\ IF num <= 0 THEN r.n = 0 ELSE r.n * den = num * r.d
            /\ probe.scrollY = probe.inpoint => r = o
            /\ (probe.speed = 50 /\ o = Num(1) /\ probe.inpoint = 0
                    /\ probe.scrollY = 200) => r = Num(2)

\* The scenario of the claim was computed.
C6_Witness ==
    /\ result.fn = "getScaleValue"
    /\ probe.speed = 50 /\ probe.originalScale = Num(1)
    /\ probe.inpoint = 0 /\ probe.scrollY = 200
    /\ result.ret = Num(2)

\* C7 as stated: a render writes opacity 0 to every layer that is not the
\* first, has transitions enabled and whose inpoint is above the scroll
\* position, the last layer and every inpoint/outpoint pair included.
C7_BelowInpointOpacityZero ==
    Rendered =>
        \A i \in 1..Len(layers) :
            (/\ layers[i].index # 0
             /\ layers[i].params.transitions
             /\ Lt(scrollPos, layers[i].params.inpoint))
                => style[layers[i].elem].opacity = Num(0)

\* C7 as amended: a render writes opacity 0 to such a layer, except to the
\* last layer when the scroll position is also above its outpoint (an outpoint
\* below the inpoint), which gets opacity 1.
C7_BelowInpointOpacityZeroUnlessLastPastOutpoint ==
    Rendered =>
        \A i \in 1..Len(layers) :
            (/\ layers[i].index # 0
             /\ layers[i].params.transitions
             /\ Lt(scrollPos, layers[i].params.inpoint))
                => IF layers[i].index + 1 = Len(layers)
                      /\ Gt(scrollPos, layers[i].params.outpoint)
                   THEN style[layers[i].elem].opacity = Num(1)
                   ELSE style[layers[i].elem].opacity = Num(0)

\* An animation frame rendered the last layer of a scene of several layers
\* below its inpoint, and wrote opacity 0.
C7_Witness ==
    /\ lastEvent = "frame"
    /\ Len(layers) > 1
    /\ layers[Len(layers)].params.transitions
    /\ Lt(scrollPos, layers[Len(layers)].params.inpoint)
    /\ style[layers[Len(layers)].elem].opacity = Num(0)

C9_SpeedIsParsedIntegerOrEight ==
    result.fn \in {"getSpeed", "PushInLayer.getSpeed"} =>
        IF ~probe.has THEN result.ret = Num(8)
        ELSE IF probe.attr.n.t = "num" THEN result.ret = probe.attr.n
        ELSE result.ret = Num(8)

\* C9 as amended: getSpeed returns 8 for an element without a speed attribute,
\* n for an attribute that holds an integer n other than 0, and 8 for an
\* attribute that holds 0 or no number.  PushInLayer.getSpeed does the same,
\* except that it takes an empty attribute as none and that, with no
\* attribute, it returns the speed of the layer's options when that is a
\* number other than 0.
C9_SpeedFromAttributeOrDefault ==
    result.fn \in {"getSpeed", "PushInLayer.getSpeed"} =>
        LET n == probe.attr.n
            ofLayer == result.fn = "PushInLayer.getSpeed"
            absent == ~probe.has \/ (ofLayer /\ probe.attr.s = <<>>)
            fromOptions ==
                /\ ofLayer
                /\ probe.options.present
                /\ probe.options.speed.t = "num"
                /\ probe.options.speed.n # 0
        IN  IF absent
            THEN result.ret = IF fromOptions THEN probe.options.speed ELSE Num(8)
            ELSE IF n.t = "num" /\ n.n # 0 THEN result.ret = n
            ELSE result.ret = Num(8)

\* data-pushin-speed="0" gave 8.
C9_Witness ==
    /\ result.fn = "getSpeed"
    /\ probe.has
    /\ probe.attr.s = <<"0">>
    /\ result.ret = Num(8)

\* C10: setZIndex(layer, total) sets the z-index total - layer.index (9 for
\* index 1 of 10); after start() on n layers, layer i has z-index n - i, so
\* the z-indexes are all different, fall in layer order and are 1 or more.
C10_ZIndexIsTotalMinusIndex ==
    /\ setZIndex(NoStyle, [index |-> 1], 10).zIndex = 9
    /\ started =>
        LET n == Len(dom.elems)
        IN  \A i \in 1..n :
                /\ style[i].zIndex = n - (i - 1)
                /\ style[i].zIndex >= 1
                /\ \A j \in (i + 1)..n : style[i].zIndex > style[j].zIndex

\* start() ran on a scene of three layers.
C10_Witness ==
    /\ started
    /\ Len(dom.elems) = 3
    /\ style[1].zIndex = 3
    /\ style[2].zIndex = 2
    /\ style[3].zIndex = 1

\* C11: at a fixed window width, running the resize recomputation again
\* right after it has run leaves every layer as the first run left it: the
\* same inpoint, outpoint, speed, depth, transitions, transitionStart and
\* transitionEnd.
C11_RecomputationIdempotent ==
    lastEvent = "timer" =>
        resetLayerParams(dom.elems, layers, [bps |-> breakpoints, log |-> <<>>],
                         Num(innerWidth)).layers = layers

\* A recomputation has run on the scene with per-breakpoint inpoints, at a
\* width that selects another entry than the first.
C11_Witness ==
    /\ lastEvent = "timer"
    /\ dom = SceneResponsive
    /\ innerWidth = 1000
    /\ layers[1].params.inpoint = Num(150)
    /\ layers[1].params.inpoint # layers[1].ref.inpoints[1]

\* The scale of the probe's layer with the speed factor 1, and whether the
\* scale of the probe's layer falls, or rises, from scroll position y on.
FullSpeedScale ==
    Add(probe.originalScale,
        Div(Num(probe.scrollY - probe.inpoint), Num(100)))

NeverBelowFrom(y, scale) ==
    \A y2 \in ScaleScrolls :
        y2 >= y => Ge(getScaleValue(ProbeLayer(result.speed), Num(y2)), scale)

NeverAboveFrom(y, scale) ==
    \A y2 \in ScaleScrolls :
        y2 >= y => Le(getScaleValue(ProbeLayer(result.speed), Num(y2)), scale)

\* C12 as stated: whatever speed is configured on the element, above 100 and
\* negative values included, the speed factor used for the scale lies in [0,1]:
\* the scale lies between the original scale and the scale at factor 1 (not
\* below 0), and it never decreases as the scroll position increases.
C12_SpeedFactorWithinZeroAndOne ==
    result.fn \in {"PushIn.getScaleValue", "PushInLayer.getScaleValue"} =>
        LET o == probe.originalScale
            lo == MathMax(MathMin(o, FullSpeedScale), Num(0))
            hi == MathMax(MathMax(o, FullSpeedScale), Num(0))
        IN  /\ Le(lo, result.ret) /\ Le(result.ret, hi)
            /\ NeverBelowFrom(probe.scrollY, result.ret)

\* C12 as amended: the speed used is min(speed, 100), so the factor is at most
\* 1 and has no lower limit.  With a speed of 0 or more the factor lies in
\* [0,1] and the scale never decreases as the scroll position increases; with
\* a negative speed the scale never increases, and past the inpoint it is
\* below a positive original scale.
C12_SpeedFactorAtMostOne ==
    result.fn \in {"PushIn.getScaleValue", "PushInLayer.getScaleValue"} =>
        LET o == probe.originalScale
            d == probe.scrollY - probe.inpoint
            lo == MathMax(MathMin(o, FullSpeedScale), Num(0))
            hi == MathMax(MathMax(o, FullSpeedScale), Num(0))
            r == result.ret
        IN  /\ result.speed.t = "num"
            /\ d >= 0 => Le(r, hi)
            /\ d <= 0 => Ge(r, lo)
            /\ Ge(result.speed, Num(0)) =>
                    /\ Le(lo, r) /\ Le(r, hi)
                    /\ NeverBelowFrom(probe.scrollY, r)
            /\ Lt(result.speed, Num(0)) =>
                    /\ NeverAboveFrom(probe.scrollY, r)
                    /\ (d > 0 /\ Gt(o, Num(0))) => Lt(r, o)

\* The attribute "-5" resolved to the speed -5 and the scale of a layer of
\* original scale 1 fell to 21/40 at 950 pixels past its inpoint.
C12_Witness ==
    /\ result.fn = "PushInLayer.getScaleValue"
    /\ probe.has /\ probe.attr.s = <<"-", "5">>
    /\ probe.originalScale = Num(1)
    /\ probe.inpoint = 0 /\ probe.scrollY = 950
    /\ result.speed = Num(-5)
    /\ result.ret = Rat(21, 40)

\* C13: for the attributes speed, transition-start and transition-end of a
\* layer element, a value that holds no number resolves to the default (8 for
\* the speed, the default transition length for the other two), and after the
\* construction of the layer and after every recomputation none of the three
\* resolved parameters is NaN.
C13_NonNumericAttributeGivesDefault ==
    result.fn \in {"new PushInLayer", "resetLayerParams"} =>
        LET p == result.layer.params
            NoNumber(c) == c.has /\ IsNaN(c.attr.n)
        IN  /\ NoNumber(probe.speed) => p.speed = Num(defaultSpeed)
            /\ NoNumber(probe.transitionStart)
                    => p.transitionStart = Num(transitionLength)
            /\ NoNumber(probe.transitionEnd)
                    => p.transitionEnd = Num(transitionLength)
            /\ ~IsNaN(p.speed)
            /\ ~IsNaN(p.transitionStart)
            /\ ~IsNaN(p.transitionEnd)

\* C14 as stated: after a render, every layer with transitions disabled has
\* the scale computed from the current scroll position, wherever the scroll
\* position is and whether the layer is the first, a middle or the last one.
C14_TransitionsOffScaleAlwaysWritten ==
    Rendered =>
        \A i \in 1..Len(layers) :
            ~layers[i].params.transitions =>
                style[layers[i].elem].scale = getScaleValue(layers[i], scrollPos)

\* C14 as amended: after a render, every layer with transitions disabled has
\* the scale computed from the current scroll position, the last layer past
\* its outpoint included, unless it is the first layer and the scroll position
\* is below its inpoint; that layer has opacity 1.
C14_TransitionsOffScaleWrittenUnlessFirstBelowInpoint ==
    Rendered =>
        \A i \in 1..Len(layers) :
            ~layers[i].params.transitions =>
                IF layers[i].index = 0 /\ Lt(scrollPos, layers[i].params.inpoint)
                THEN style[layers[i].elem].opacity = Num(1)
                ELSE style[layers[i].elem].scale
                        = getScaleValue(layers[i], scrollPos)

\* A frame rendered the last layer, transitions disabled, past its outpoint.
C14_Witness ==
    /\ lastEvent = "frame"
    /\ dom = SceneNoTransitions
    /\ scrollPos = Num(2900)
    /\ ~layers[2].params.transitions
    /\ Gt(scrollPos, layers[2].params.outpoint)
    /\ style[2].scale = Rat(39, 2)
    /\ style[2].opacity = Num(1)

\* The element configures no inpoints: no data-pushin-from value and no
\* inpoints in its options.
NoConfiguredInpoints(el) ==
    /\ ~AttrTruthy(el.from)
    /\ ~(el.options.present /\ el.options.inpoints.has)

Settled ==
    started =>
        /\ rafQueue = 0
        /\ style = toggleLayers(layers, style, scrollPos)
        /\ \A i \in 1..Len(layers) : style[layers[i].elem].opacity # Undefined

\* C16: when the scroll events after start() come to an end and every
\* animation frame asked for is run, then from some point on no render is
\* pending and every layer's opacity, and the scale of every layer a render
\* scales, is the one computed from the scroll position of the last event.
C16_EventuallyRendersLastScrollPosition ==
    <>[][~Scroll]_vars => <>[]Settled

\* A frame ran the callbacks of two scroll events and left every layer as a
\* render at the last scroll position leaves it.
C16_Witness ==
    /\ lastEvent = "frame"
    /\ rendersInFrame = 2
    /\ rafQueue = 0
    /\ dom = SceneDefault
    /\ scrollPos = Num(950)
    /\ style = toggleLayers(layers, style, scrollPos)
    /\ style[2].opacity # Undefined

\* C17: however often start() has been called on the instance, this.layers
\* holds one record per layer element of the container, with the indexes
\* 0..n-1 in order, so a render takes exactly one layer as the first and
\* exactly one as the last (index + 1 = this.layers.length).
C17_OneLayerRecordPerElement ==
    started =>
        /\ Len(layers) = Len(dom.elems)
        /\ \A i \in 1..Len(layers) : layers[i].index = i - 1
        /\ Cardinality({i \in 1..Len(layers) : layers[i].index = 0}) = 1
        /\ Cardinality({i \in 1..Len(layers) :
                            layers[i].index + 1 = Len(layers)}) = 1

=============================================================================
